---------------------------- MODULE Spec2Model ----------------------------
(***************************************************************************)
(* Model of the flex-mtls-cert request filter (src/src/lib.rs).            *)
(*                                                                         *)
(* A string is a sequence of characters, a character a one-letter TLA+     *)
(* string.  A property of the stream is a sequence of bytes; a byte is a   *)
(* character, or InvalidByte (a byte that is no valid UTF-8).              *)
(* Option<T> is a sequence of length 0 (None) or 1 (Some(v)).              *)
(* headers is the sequence of set_header(name, value) calls made so far.   *)
(***************************************************************************)
EXTENDS Naturals, Sequences, FiniteSets

VARIABLES stream, pc, subject_field, segments, subject, san_attributes, headers, flow

vars == <<stream, pc, subject_field, segments, subject, san_attributes, headers, flow>>

-----------------------------------------------------------------------------
(* Bounds of the model *)

\* most segments of a generated subject string
MaxSegs == 2
\* most comma-separated pieces of a generated SAN string
MaxPieces == 2

-----------------------------------------------------------------------------
(* Option, and the string functions of the standard library the code uses *)

None == <<>>
Some(v) == <<v>>
is_none(o) == Len(o) = 0
is_some(o) == Len(o) = 1
unwrap_or_default(o) == IF Len(o) = 0 THEN <<>> ELSE o[1]

Whitespace == {" ", "\t"}
InvalidByte == "0xFF"
ReplacementChar == "U+FFFD"

SetMin(S) == CHOOSE x \in S : \A y \in S : x <= y
SetMax(S) == CHOOSE x \in S : \A y \in S : y <= x

is_empty(s) == Len(s) = 0

\* String::from_utf8_lossy: an invalid byte becomes U+FFFD
from_utf8_lossy(bytes) ==
    [i \in 1..Len(bytes) |-> IF bytes[i] = InvalidByte THEN ReplacementChar ELSE bytes[i]]

\* str::split(sep): the slices between the places of the separator, in order;
\* one slice for a string without separator, the empty string included
split(s, sep) ==
    LET places == {i \in 1..Len(s) : s[i] = sep}
        count == Cardinality(places) + 1
        nth(k) == CHOOSE p \in places : Cardinality({q \in places : q < p}) = k - 1
    IN  [k \in 1..count |->
            SubSeq(s, IF k = 1 THEN 1 ELSE nth(k - 1) + 1,
                      IF k = count THEN Len(s) ELSE nth(k) - 1)]

\* str::trim: without leading and trailing whitespace
trim(s) ==
    LET keep == {i \in 1..Len(s) : s[i] \notin Whitespace}
    IN  IF keep = {} THEN <<>> ELSE SubSeq(s, SetMin(keep), SetMax(keep))

starts_with(s, prefix) ==
    /\ Len(prefix) <= Len(s)
    /\ SubSeq(s, 1, Len(prefix)) = prefix

\* str::split_at(mid): panics when mid is past the end of the string
split_at(s, mid) ==
    [panic |-> mid > Len(s),
     left  |-> SubSeq(s, 1, IF mid > Len(s) THEN Len(s) ELSE mid),
     right |-> SubSeq(s, mid + 1, Len(s))]

\* [String]::join(sep)
RECURSIVE join(_, _)
join(list, sep) ==
    IF Len(list) = 0 THEN <<>>
    ELSE IF Len(list) = 1 THEN list[1]
    ELSE list[1] \o sep \o join(Tail(list), sep)

\* slice::first
first(list) == IF Len(list) = 0 THEN None ELSE Some(list[1])

-----------------------------------------------------------------------------
(* Constants of lib.rs *)

EMAIL_SUBJECT_PREAMBLE == <<"e","m","a","i","l","A","d","d","r","e","s","s","=">>
NAME_SUBJECT_PREAMBLE == <<"C","N","=">>
ORGANIZATION_SUBJECT_PREAMBLE == <<"O","=">>
ORGANIZATION_UNIT_PREAMBLE == <<"O","U","=">>
COUNTRY_PREAMBLE == <<"C","=">>
LOCALITY_PREAMBLE == <<"L","=">>
STATE_PREAMBLE == <<"S","T","=">>

CommonNameMissing ==
    <<"C","o","m","m","o","n"," ","n","a","m","e"," ","m","i","s","s","i","n","g",
      " ","f","r","o","m"," ","p","e","e","r"," ","c","e","r","t">>
EmailAddressMissing ==
    <<"E","m","a","i","l"," ","a","d","d","r","e","s","s"," ","m","i","s","s","i","n","g",
      " ","f","r","o","m"," ","p","e","e","r"," ","c","e","r","t">>
ErrorsSeparator == <<";"," ">>
Comma == ","
True == <<"t","r","u","e">>
False == <<"f","a","l","s","e">>

SubjectPath == <<"connection", "subject_peer_certificate">>
DnsSansPath == <<"connection", "dns_sans_peer_certificate">>
UriSansPath == <<"connection", "uri_sans_peer_certificate">>
IpSansPath == <<"connection", "ip_sans_peer_certificate">>
EmailSansPath == <<"connection", "email_sans_peer_certificate">>
SanPaths == {DnsSansPath, UriSansPath, IpSansPath, EmailSansPath}
Paths == {SubjectPath} \cup SanPaths

-----------------------------------------------------------------------------
(* read_property, Subject, SanAttributes *)

\* a property the host does not hold reads as None, and None as ""
read_property(s, path) ==
    from_utf8_lossy(unwrap_or_default(IF path \in DOMAIN s THEN s[path] ELSE None))

SubjectFields ==
    {"name", "email", "organization", "organization_unit", "country", "locality", "state"}

\* the locals of parse_subject before its loop: every field None, no error
NewSubject ==
    [name |-> None, email |-> None, organization |-> None, organization_unit |-> None,
     country |-> None, locality |-> None, state |-> None, errors |-> <<>>]

\* the if / else-if chain of parse_subject's loop, in its order
PreambleChain ==
    <<[field |-> "email",             preamble |-> EMAIL_SUBJECT_PREAMBLE],
      [field |-> "name",              preamble |-> NAME_SUBJECT_PREAMBLE],
      [field |-> "organization",      preamble |-> ORGANIZATION_SUBJECT_PREAMBLE],
      [field |-> "organization_unit", preamble |-> ORGANIZATION_UNIT_PREAMBLE],
      [field |-> "country",           preamble |-> COUNTRY_PREAMBLE],
      [field |-> "locality",          preamble |-> LOCALITY_PREAMBLE],
      [field |-> "state",             preamble |-> STATE_PREAMBLE]>>

\* the arm of the chain a trimmed segment takes: the first whose preamble it
\* starts with, 0 when it starts with none
MatchedArm(trimmed_segment) ==
    LET arms == {i \in 1..Len(PreambleChain) :
                    starts_with(trimmed_segment, PreambleChain[i].preamble)}
    IN  IF arms = {} THEN 0 ELSE SetMin(arms)

\* ArmValue with the split one place too far: a faulty variant
ArmValueOffByOne(trimmed_segment, preamble) == split_at(trimmed_segment, Len(preamble) + 1)

\* the value an arm stores: trimmed_segment.split_at(PREAMBLE.len()).1
ArmValue(trimmed_segment, preamble) == split_at(trimmed_segment, Len(preamble))

\* StoreField that keeps the first value: a faulty variant
StoreFieldFirstWins(subj, field, value) ==
    IF is_none(subj[field]) THEN [subj EXCEPT ![field] = Some(value)] ELSE subj

\* an arm's assignment, field = Some(value): a later segment overwrites
StoreField(subj, field, value) == [subj EXCEPT ![field] = Some(value)]

\* MissingErrors that takes an empty value for a missing one: a faulty variant
MissingErrorsOfEmpty(name, email) ==
    (IF is_empty(unwrap_or_default(name)) THEN <<CommonNameMissing>> ELSE <<>>)
        \o (IF is_empty(unwrap_or_default(email)) THEN <<EmailAddressMissing>> ELSE <<>>)

\* lines 85-92: the errors of the missing required attributes, name first
MissingErrors(name, email) ==
    (IF is_none(name) THEN <<CommonNameMissing>> ELSE <<>>)
        \o (IF is_none(email) THEN <<EmailAddressMissing>> ELSE <<>>)

\* SanAttributes as parse_san_attributes builds it first: four empty lists
NewSanAttributes ==
    [dns_names |-> <<>>, ip_addresses |-> <<>>, email_addresses |-> <<>>, uri_sans |-> <<>>]

\* SanList without the guard on the empty string: a faulty variant
SanListUnguarded(raw) ==
    LET pieces == split(raw, Comma)
    IN  [i \in 1..Len(pieces) |-> trim(pieces[i])]

\* one category of parse_san_attributes: the list stays empty for an empty
\* string, and is the trimmed pieces otherwise
SanList(raw) ==
    IF ~is_empty(raw)
    THEN LET pieces == split(raw, Comma)
         IN  [i \in 1..Len(pieces) |-> trim(pieces[i])]
    ELSE <<>>

parse_san_attributes(s) ==
    [dns_names       |-> SanList(read_property(s, DnsSansPath)),
     uri_sans        |-> SanList(read_property(s, UriSansPath)),
     ip_addresses    |-> SanList(read_property(s, IpSansPath)),
     email_addresses |-> SanList(read_property(s, EmailSansPath))]

set_header(hs, name, value) == Append(hs, [name |-> name, value |-> value])

\* if let Some(v) = option { set_header(name, v) }
set_header_if_some(hs, name, option) ==
    IF is_some(option) THEN set_header(hs, name, option[1]) ELSE hs

-----------------------------------------------------------------------------
(* The inputs: what the host's stream can hold *)

\* segments a generated subject string is made of: each preamble with a value,
\* the required ones also with no value and with a second value, and segments
\* that are empty, unknown, padded, or only look like a preamble
SubjectSegments ==
    { NAME_SUBJECT_PREAMBLE \o <<"A">>,
      NAME_SUBJECT_PREAMBLE \o <<"B">>,
      NAME_SUBJECT_PREAMBLE,
      EMAIL_SUBJECT_PREAMBLE \o <<"a","@","b">>,
      EMAIL_SUBJECT_PREAMBLE,
      ORGANIZATION_SUBJECT_PREAMBLE \o <<"X">>,
      ORGANIZATION_SUBJECT_PREAMBLE \o <<" ","Y">>,
      ORGANIZATION_UNIT_PREAMBLE \o <<"D">>,
      COUNTRY_PREAMBLE \o <<"U">>,
      LOCALITY_PREAMBLE \o <<"S">>,
      STATE_PREAMBLE \o <<"T">>,
      <<>>,
      <<"U","I","D","=","7">>,
      <<" ">> \o NAME_SUBJECT_PREAMBLE \o <<"C","\t">>,
      <<"x">> \o NAME_SUBJECT_PREAMBLE \o <<"A">>,
      <<"C","N">>,
      NAME_SUBJECT_PREAMBLE \o <<InvalidByte>> }

\* "CN=Alice,emailAddress=a@b.com,O=Acme", "O=OnlyOrg", "CN=First,CN=Second" in
\* short, and a subject with all seven attributes
SubjectExamples ==
    { <<"C","N","=","A",",","e","m","a","i","l","A","d","d","r","e","s","s","=","a","@","b",
        ",","O","=","X">>,
      <<"O","=","X">>,
      <<"C","N","=","A",",","C","N","=","B">>,
      <<"C","N","=","A",",","e","m","a","i","l","A","d","d","r","e","s","s","=","a","@","b",
        ",","O","=","X",","," ","O","U","=","D",","," ","C","=","U",","," ","L","=","S",
        ","," ","S","T","=","T">> }

SeqsUpTo(S, n) == UNION {[1..k -> S] : k \in 1..n}

Subjects ==
    {join(segs, <<Comma>>) : segs \in SeqsUpTo(SubjectSegments, MaxSegs)} \cup SubjectExamples

\* pieces a generated SAN string is made of
SanPieces == { <<>>, <<" ">>, <<"a">>, <<" ","b","\t">> }

RawSans == {join(ps, <<Comma>>) : ps \in SeqsUpTo(SanPieces, MaxPieces)}

\* a SAN string per category, as a certificate with two DNS names would give
SanExample ==
    [p \in SanPaths |->
        IF p = DnsSansPath THEN Some(<<"x",",","y">>)
        ELSE IF p = IpSansPath THEN Some(<<"1",",","2">>)
        ELSE IF p = EmailSansPath THEN Some(<<"a","@","b">>)
        ELSE Some(<<"u",":","v">>)]

\* a few subject properties: not held, empty, and three examples
FewSubjects == {None, Some(<<>>)} \cup {Some(s) : s \in SubjectExamples}

MkStream(subj, sans) == [p \in Paths |-> IF p = SubjectPath THEN subj ELSE sans[p]]

\* every generated subject, with no SAN property or with all four
StreamsBySubject ==
    {MkStream(subj, sans) :
        subj \in {None} \cup {Some(s) : s \in Subjects},
        sans \in {[p \in SanPaths |-> None], SanExample}}

\* every generated SAN string in one category, the other three all held or
\* all not held
StreamsBySan ==
    {MkStream(subj, [p \in SanPaths |-> IF p = cat THEN Some(raw)
                                        ELSE IF rest THEN SanExample[p] ELSE None]) :
        subj \in {Some(<<>>), Some(<<"O","=","X">>),
                  Some(<<"C","N","=","A",",","C","N","=","B">>)},
        cat \in SanPaths, raw \in RawSans, rest \in BOOLEAN}

\* every choice of which SAN properties are held
StreamsByPresence ==
    {MkStream(subj, [p \in SanPaths |-> IF p \in held THEN SanExample[p] ELSE None]) :
        subj \in FewSubjects, held \in SUBSET SanPaths}

Streams == StreamsBySubject \cup StreamsBySan \cup StreamsByPresence

-----------------------------------------------------------------------------
(* request_filter, step by step *)

Init ==
    /\ stream \in Streams
    /\ pc = "start"
    /\ subject_field = <<>>
    /\ segments = <<>>
    /\ subject = NewSubject
    /\ san_attributes = NewSanAttributes
    /\ headers = <<>>
    /\ flow = "none"

\* lines 144-145
ReadSubjectField ==
    /\ pc = "start"
    /\ subject_field' = read_property(stream, SubjectPath)
    /\ pc' = "check"
    /\ UNCHANGED <<stream, segments, subject, san_attributes, headers, flow>>

\* CertificateAbsent without the return: a faulty variant
CertificateAbsentFallsThrough ==
    /\ pc = "check"
    /\ is_empty(subject_field)
    /\ headers' = set_header(headers, "X-Peer-Certificate-Present", False)
    /\ pc' = "parse_subject"
    /\ UNCHANGED <<stream, subject_field, segments, subject, san_attributes, flow>>

\* lines 148-151: no certificate, one header and return
CertificateAbsent ==
    /\ pc = "check"
    /\ is_empty(subject_field)
    /\ headers' = set_header(headers, "X-Peer-Certificate-Present", False)
    /\ flow' = "Continue"
    /\ pc' = "done"
    /\ UNCHANGED <<stream, subject_field, segments, subject, san_attributes>>

\* line 153
CertificatePresent ==
    /\ pc = "check"
    /\ ~is_empty(subject_field)
    /\ headers' = set_header(headers, "X-Peer-Certificate-Present", True)
    /\ pc' = "parse_subject"
    /\ UNCHANGED <<stream, subject_field, segments, subject, san_attributes, flow>>

\* parse_subject, lines 43-51: split the field, every local None
SplitSubject ==
    /\ pc = "parse_subject"
    /\ \E split_ \in {split(subject_field, Comma)} : segments' = split_
    /\ subject' = NewSubject
    /\ pc' = "segments"
    /\ UNCHANGED <<stream, subject_field, san_attributes, headers, flow>>

\* parse_subject, lines 53-83: one turn of the loop
ParseSegment ==
    /\ pc = "segments"
    /\ segments # <<>>
    /\ \E trimmed_segment \in {trim(Head(segments))} :
       \E arm \in {MatchedArm(trimmed_segment)} :
          IF arm = 0
          THEN /\ subject' = subject
               /\ pc' = pc
               /\ flow' = flow
          ELSE \E value \in {ArmValue(trimmed_segment, PreambleChain[arm].preamble)} :
                  IF value.panic
                  THEN /\ subject' = subject
                       /\ pc' = "done"
                       /\ flow' = "panic"
                  ELSE /\ subject' = StoreField(subject, PreambleChain[arm].field, value.right)
                       /\ pc' = pc
                       /\ flow' = flow
    /\ segments' = Tail(segments)
    /\ UNCHANGED <<stream, subject_field, san_attributes, headers>>

\* parse_subject, lines 85-103: the errors of the missing attributes
CheckMissing ==
    /\ pc = "segments"
    /\ segments = <<>>
    /\ subject' = [subject EXCEPT !.errors = MissingErrors(subject.name, subject.email)]
    /\ pc' = "subject_parsed"
    /\ UNCHANGED <<stream, subject_field, segments, san_attributes, headers, flow>>

\* SetBasicSubjectHeaders with the email header first: a faulty variant
SetBasicSubjectHeadersEmailFirst ==
    /\ pc = "subject_parsed"
    /\ headers' =
          set_header_if_some(
              set_header_if_some(headers, "X-Peer-Email", subject.email),
              "X-Peer-Name", subject.name)
    /\ pc' = "optional_headers"
    /\ UNCHANGED <<stream, subject_field, segments, subject, san_attributes, flow>>

\* lines 159-165
SetBasicSubjectHeaders ==
    /\ pc = "subject_parsed"
    /\ headers' =
          set_header_if_some(
              set_header_if_some(headers, "X-Peer-Name", subject.name),
              "X-Peer-Email", subject.email)
    /\ pc' = "optional_headers"
    /\ UNCHANGED <<stream, subject_field, segments, subject, san_attributes, flow>>

\* lines 168-186
SetOptionalSubjectHeaders ==
    /\ pc = "optional_headers"
    /\ headers' =
          set_header_if_some(
            set_header_if_some(
              set_header_if_some(
                set_header_if_some(
                  set_header_if_some(headers, "X-Peer-Organization", subject.organization),
                  "X-Peer-OrganizationUnit", subject.organization_unit),
                "X-Peer-Country", subject.country),
              "X-Peer-Locality", subject.locality),
            "X-Peer-State", subject.state)
    /\ pc' = "errors_header"
    /\ UNCHANGED <<stream, subject_field, segments, subject, san_attributes, flow>>

\* SetErrorsHeader joining with "," as the SAN headers do: a faulty variant
SetErrorsHeaderCommaJoined ==
    /\ pc = "errors_header"
    /\ headers' =
          IF ~is_empty(subject.errors)
          THEN set_header(headers, "X-Peer-Certificate-Errors",
                          join(subject.errors, <<Comma>>))
          ELSE headers
    /\ pc' = "parse_san"
    /\ UNCHANGED <<stream, subject_field, segments, subject, san_attributes, flow>>

\* lines 189-191
SetErrorsHeader ==
    /\ pc = "errors_header"
    /\ headers' =
          IF ~is_empty(subject.errors)
          THEN set_header(headers, "X-Peer-Certificate-Errors",
                          join(subject.errors, ErrorsSeparator))
          ELSE headers
    /\ pc' = "parse_san"
    /\ UNCHANGED <<stream, subject_field, segments, subject, san_attributes, flow>>

\* line 194
ParseSanAttributes ==
    /\ pc = "parse_san"
    /\ \E parsed \in {parse_san_attributes(stream)} : san_attributes' = parsed
    /\ pc' = "dns_headers"
    /\ UNCHANGED <<stream, subject_field, segments, subject, headers, flow>>

\* lines 197-203
SetDnsHeaders ==
    /\ pc = "dns_headers"
    /\ headers' =
          IF ~is_empty(san_attributes.dns_names)
          THEN set_header_if_some(
                   set_header(headers, "X-Peer-SAN-DNS",
                              join(san_attributes.dns_names, <<Comma>>)),
                   "X-Peer-Primary-DNS", first(san_attributes.dns_names))
          ELSE headers
    /\ pc' = "ip_headers"
    /\ UNCHANGED <<stream, subject_field, segments, subject, san_attributes, flow>>

\* lines 206-212
SetIpHeaders ==
    /\ pc = "ip_headers"
    /\ headers' =
          IF ~is_empty(san_attributes.ip_addresses)
          THEN set_header_if_some(
                   set_header(headers, "X-Peer-SAN-IP",
                              join(san_attributes.ip_addresses, <<Comma>>)),
                   "X-Peer-Primary-IP", first(san_attributes.ip_addresses))
          ELSE headers
    /\ pc' = "email_header"
    /\ UNCHANGED <<stream, subject_field, segments, subject, san_attributes, flow>>

\* SetEmailSanHeader with a primary header, as DNS and IP have: a faulty variant
SetEmailSanHeaderWithPrimary ==
    /\ pc = "email_header"
    /\ headers' =
          IF ~is_empty(san_attributes.email_addresses)
          THEN set_header_if_some(
                   set_header(headers, "X-Peer-SAN-Email",
                              join(san_attributes.email_addresses, <<Comma>>)),
                   "X-Peer-Primary-Email", first(san_attributes.email_addresses))
          ELSE headers
    /\ pc' = "uri_header"
    /\ UNCHANGED <<stream, subject_field, segments, subject, san_attributes, flow>>

\* lines 215-217
SetEmailSanHeader ==
    /\ pc = "email_header"
    /\ headers' =
          IF ~is_empty(san_attributes.email_addresses)
          THEN set_header(headers, "X-Peer-SAN-Email",
                          join(san_attributes.email_addresses, <<Comma>>))
          ELSE headers
    /\ pc' = "uri_header"
    /\ UNCHANGED <<stream, subject_field, segments, subject, san_attributes, flow>>

\* lines 220-222
SetUriSanHeader ==
    /\ pc = "uri_header"
    /\ headers' =
          IF ~is_empty(san_attributes.uri_sans)
          THEN set_header(headers, "X-Peer-SAN-URI",
                          join(san_attributes.uri_sans, <<Comma>>))
          ELSE headers
    /\ pc' = "return"
    /\ UNCHANGED <<stream, subject_field, segments, subject, san_attributes, flow>>

\* line 225
ReturnContinue ==
    /\ pc = "return"
    /\ flow' = "Continue"
    /\ pc' = "done"
    /\ UNCHANGED <<stream, subject_field, segments, subject, san_attributes, headers>>

Next ==
    \/ ReadSubjectField
    \/ CertificateAbsent
    \/ CertificatePresent
    \/ SplitSubject
    \/ ParseSegment
    \/ CheckMissing
    \/ SetBasicSubjectHeaders
    \/ SetOptionalSubjectHeaders
    \/ SetErrorsHeader
    \/ ParseSanAttributes
    \/ SetDnsHeaders
    \/ SetIpHeaders
    \/ SetEmailSanHeader
    \/ SetUriSanHeader
    \/ ReturnContinue

Spec == Init /\ [][Next]_vars

-----------------------------------------------------------------------------
(* parse_subject alone, called with any string *)

InitSubject ==
    /\ stream = MkStream(None, [p \in SanPaths |-> None])
    /\ pc = "parse_subject"
    /\ subject_field \in {from_utf8_lossy(s) : s \in Subjects}
    /\ segments = <<>>
    /\ subject = NewSubject
    /\ san_attributes = NewSanAttributes
    /\ headers = <<>>
    /\ flow = "none"

NextSubject ==
    \/ SplitSubject
    \/ ParseSegment
    \/ CheckMissing

SpecSubject == InitSubject /\ [][NextSubject]_vars

-----------------------------------------------------------------------------
(* What the claims are stated with *)

HeaderIndexes(name) == {i \in 1..Len(headers) : headers[i].name = name}
HasHeader(name) == HeaderIndexes(name) # {}

\* the certificate was found present, and the filter is past step `steps`
CertificatePresentAt(steps) == pc \in steps /\ ~is_empty(subject_field) /\ flow # "panic"

AfterErrorsStep ==
    {"parse_san", "dns_headers", "ip_headers", "email_header", "uri_header", "return", "done"}
AfterSanParse == {"dns_headers", "ip_headers", "email_header", "uri_header", "return", "done"}

\* the comma-separated pieces of a string, read from the left: what comes
\* before the first comma, then the pieces of what comes after it
RECURSIVE Pieces(_)
Pieces(s) ==
    IF \A i \in 1..Len(s) : s[i] # Comma THEN <<s>>
    ELSE LET c == CHOOSE i \in 1..Len(s) : s[i] = Comma /\ \A j \in 1..(i - 1) : s[j] # Comma
         IN  <<SubSeq(s, 1, c - 1)>> \o Pieces(SubSeq(s, c + 1, Len(s)))
PieceCount(s) == Len(Pieces(s))
PieceAt(s, k) == Pieces(s)[k]

\* t is s without its leading and trailing whitespace
IsTrimOf(t, s) ==
    /\ Len(t) > 0 => t[1] \notin Whitespace /\ t[Len(t)] \notin Whitespace
    /\ \E lead \in 0..Len(s) :
          /\ lead + Len(t) <= Len(s)
          /\ \A i \in 1..Len(s) :
                IF i > lead /\ i <= lead + Len(t) THEN s[i] = t[i - lead]
                ELSE s[i] \in Whitespace

\* segment k of the subject field, trimmed, begins with the preamble; and what
\* follows the preamble in it
SegmentHas(s, k, preamble) ==
    \E t \in {trim(PieceAt(s, k))} :
        /\ IsTrimOf(t, PieceAt(s, k))
        /\ Len(t) >= Len(preamble)
        /\ \A i \in 1..Len(preamble) : t[i] = preamble[i]
SegmentRest(s, k, preamble) ==
    LET t == trim(PieceAt(s, k))
    IN  [i \in 1..(Len(t) - Len(preamble)) |-> t[i + Len(preamble)]]
SegmentsWith(s, upto, preamble) == {k \in 1..upto : SegmentHas(s, k, preamble)}

Contains(list, x) == \E i \in 1..Len(list) : list[i] = x

-----------------------------------------------------------------------------
(* The claims *)

\* C1: every header request_filter writes has a non-empty value.
\* Stated as claimed; the code writes X-Peer-Name with the empty value for the
\* subject "CN=".
C1_NoEmptyHeaderValue ==
    \A i \in 1..Len(headers) : ~is_empty(headers[i].value)

PresentFalse == [name |-> "X-Peer-Certificate-Present", value |-> False]

\* C2: when the subject string read is empty, request_filter writes the one
\* header X-Peer-Certificate-Present: false and no other, whatever the SAN
\* properties hold.
C2_AbsentWritesOnlyPresentFalse ==
    is_empty(read_property(stream, SubjectPath)) =>
        /\ headers \in {<<>>, <<PresentFalse>>}
        /\ pc = "done" => headers = <<PresentFalse>>

C2_Witness ==
    /\ pc = "done"
    /\ is_empty(subject_field)
    /\ \A p \in SanPaths : ~is_empty(read_property(stream, p))
    /\ headers = <<PresentFalse>>

\* C3: request_filter always finishes, and by returning Flow::Continue: no
\* step before the end is stuck, nothing else is returned, and no panic ends it.
C3_AlwaysContinue ==
    /\ pc = "done" => flow = "Continue"
    /\ pc # "done" => flow = "none" /\ ENABLED Next

C3_Witness ==
    /\ pc = "done"
    /\ flow = "Continue"
    /\ Len(subject.errors) = 2
    /\ is_none(stream[IpSansPath])
    /\ Contains(san_attributes.dns_names, <<>>)

\* C4: the errors parse_subject returns hold the common-name message exactly
\* when no trimmed segment begins with "CN=" (exactly when name is None), the
\* email message exactly when none begins with "emailAddress=" (exactly when
\* email is None), and no other message.
C4_ErrorsIffMissing ==
    pc = "subject_parsed" =>
        LET n == PieceCount(subject_field)
        IN  /\ Contains(subject.errors, CommonNameMissing)
                <=> SegmentsWith(subject_field, n, NAME_SUBJECT_PREAMBLE) = {}
            /\ Contains(subject.errors, CommonNameMissing) <=> is_none(subject.name)
            /\ Contains(subject.errors, EmailAddressMissing)
                <=> SegmentsWith(subject_field, n, EMAIL_SUBJECT_PREAMBLE) = {}
            /\ Contains(subject.errors, EmailAddressMissing) <=> is_none(subject.email)
            /\ \A i \in 1..Len(subject.errors) :
                  subject.errors[i] \in {CommonNameMissing, EmailAddressMissing}

C4_Witness ==
    /\ pc = "subject_parsed"
    /\ subject.errors = <<EmailAddressMissing>>
    /\ subject.name = Some(<<>>)

\* C5: no field of the Subject parse_subject returns is Some of the empty
\* string.  Stated as claimed; the code returns name = Some("") for "CN=".
C5_NoEmptyField ==
    \A f \in SubjectFields : is_some(subject[f]) => ~is_empty(subject[f][1])

\* C6: with a non-empty subject, X-Peer-Certificate-Errors is written exactly
\* when name or email is None after parsing, once, and its value is the
\* common-name message, then the email message, those that apply, joined by "; ".
C6_ErrorsHeader ==
    /\ pc \notin AfterErrorsStep => ~HasHeader("X-Peer-Certificate-Errors")
    /\ CertificatePresentAt(AfterErrorsStep) =>
          LET no_name == is_none(subject.name)
              no_email == is_none(subject.email)
              written == HeaderIndexes("X-Peer-Certificate-Errors")
          IN  /\ written # {} <=> no_name \/ no_email
              /\ Cardinality(written) <= 1
              /\ \A i \in written :
                    headers[i].value =
                        IF no_name /\ no_email
                        THEN CommonNameMissing \o <<";", " ">> \o EmailAddressMissing
                        ELSE IF no_name THEN CommonNameMissing ELSE EmailAddressMissing

C6_Witness ==
    /\ pc = "done"
    /\ \E i \in HeaderIndexes("X-Peer-Certificate-Errors") :
          headers[i].value = CommonNameMissing \o <<";", " ">> \o EmailAddressMissing

\* the first piece of a SAN property, trimmed
FirstEntry(path) == trim(PieceAt(read_property(stream, path), 1))

\* C7: X-Peer-Primary-DNS is written exactly when X-Peer-SAN-DNS is, right
\* after it, with the first entry of dns_names as its value; X-Peer-Primary-IP
\* likewise with X-Peer-SAN-IP and ip_addresses; X-Peer-SAN-Email and
\* X-Peer-SAN-URI are followed by no primary header.
C7_PrimaryHeaders ==
    /\ \A i \in HeaderIndexes("X-Peer-SAN-DNS") :
          /\ i < Len(headers)
          /\ headers[i + 1].name = "X-Peer-Primary-DNS"
          /\ headers[i + 1].value = san_attributes.dns_names[1]
          /\ headers[i + 1].value = FirstEntry(DnsSansPath)
    /\ \A i \in HeaderIndexes("X-Peer-Primary-DNS") :
          i > 1 /\ headers[i - 1].name = "X-Peer-SAN-DNS"
    /\ \A i \in HeaderIndexes("X-Peer-SAN-IP") :
          /\ i < Len(headers)
          /\ headers[i + 1].name = "X-Peer-Primary-IP"
          /\ headers[i + 1].value = san_attributes.ip_addresses[1]
          /\ headers[i + 1].value = FirstEntry(IpSansPath)
    /\ \A i \in HeaderIndexes("X-Peer-Primary-IP") :
          i > 1 /\ headers[i - 1].name = "X-Peer-SAN-IP"
    /\ \A i \in HeaderIndexes("X-Peer-SAN-Email") :
          i = Len(headers) \/ headers[i + 1].name = "X-Peer-SAN-URI"
    /\ \A i \in HeaderIndexes("X-Peer-SAN-URI") : i = Len(headers)
    /\ CertificatePresentAt({"done"}) =>
          /\ HasHeader("X-Peer-SAN-DNS") <=> ~is_empty(san_attributes.dns_names)
          /\ HasHeader("X-Peer-SAN-IP") <=> ~is_empty(san_attributes.ip_addresses)

C7_Witness ==
    /\ pc = "done"
    /\ HasHeader("X-Peer-Primary-DNS")
    /\ HasHeader("X-Peer-Primary-IP")
    /\ HasHeader("X-Peer-SAN-URI")
    /\ HasHeader("X-Peer-SAN-Email")
    /\ Len(san_attributes.email_addresses) = 2
    /\ Len(san_attributes.dns_names) = 2

SanFieldOf ==
    [p \in SanPaths |->
        IF p = DnsSansPath THEN "dns_names"
        ELSE IF p = UriSansPath THEN "uri_sans"
        ELSE IF p = IpSansPath THEN "ip_addresses"
        ELSE "email_addresses"]

\* C8: in each SAN category, parse_san_attributes gives the empty list for the
\* empty string, and otherwise one entry per comma plus one: entry k is the
\* k-th piece between the commas without its leading and trailing whitespace,
\* in the string's order, duplicates kept.
C8_SanLists ==
    CertificatePresentAt(AfterSanParse) =>
        \A p \in SanPaths :
            LET raw == read_property(stream, p)
                list == san_attributes[SanFieldOf[p]]
            IN  IF Len(raw) = 0
                THEN list = <<>>
                ELSE /\ Len(list) = PieceCount(raw)
                     /\ \A k \in 1..Len(list) : IsTrimOf(list[k], PieceAt(raw, k))

C8_Witness ==
    /\ pc = "dns_headers"
    /\ \E p \in SanPaths :
          /\ read_property(stream, p) = <<" ", "b", "\t", ",", " ", "b", "\t">>
          /\ san_attributes[SanFieldOf[p]] = << <<"b">>, <<"b">> >>
    /\ \E p \in SanPaths :
          /\ is_empty(read_property(stream, p))
          /\ san_attributes[SanFieldOf[p]] = <<>>

\* the value of a field after the first `upto` segments: that of the last of
\* them that begins with the field's preamble, None when there is none
LastWins(s, upto, preamble) ==
    LET with == SegmentsWith(s, upto, preamble)
    IN  IF with = {} THEN None ELSE Some(SegmentRest(s, SetMax(with), preamble))

\* C9 (the fields): after any number of turns of parse_subject's loop, and so
\* in what it returns, each of the seven fields holds what follows the preamble
\* in the last segment so far that begins with it, and is None when none does.
C9_LastWinsInv ==
    pc \in {"segments", "subject_parsed"} =>
        LET done == PieceCount(subject_field) - Len(segments)
        IN  \A a \in 1..Len(PreambleChain) :
                subject[PreambleChain[a].field]
                    = LastWins(subject_field, done, PreambleChain[a].preamble)

\* C9 (a turn): a segment that begins with no preamble changes no field, and
\* any segment changes at most the field of the preamble it begins with.
C9_OneFieldStep ==
    (pc = "segments" /\ segments # <<>>) =>
        LET k == PieceCount(subject_field) - Len(segments) + 1
            begun == {a \in 1..Len(PreambleChain) :
                         SegmentHas(subject_field, k, PreambleChain[a].preamble)}
        IN  /\ Cardinality(begun) <= 1
            /\ \A f \in SubjectFields :
                  subject'[f] # subject[f] => \E a \in begun : PreambleChain[a].field = f

\* C9: of several segments with the same preamble the last one's remainder is
\* the field; other segments change nothing, and a segment changes one field at
\* most.
C9_LastWins == []C9_LastWinsInv /\ [][C9_OneFieldStep]_vars

C9_Witness ==
    /\ pc = "subject_parsed"
    /\ subject_field = <<"C","N","=","A",",","C","N","=","B">>
    /\ subject.name = Some(<<"B">>)

FixedHeaderNames ==
    <<"X-Peer-Certificate-Present", "X-Peer-Name", "X-Peer-Email", "X-Peer-Organization",
      "X-Peer-OrganizationUnit", "X-Peer-Country", "X-Peer-Locality", "X-Peer-State",
      "X-Peer-Certificate-Errors", "X-Peer-SAN-DNS", "X-Peer-Primary-DNS", "X-Peer-SAN-IP",
      "X-Peer-Primary-IP", "X-Peer-SAN-Email", "X-Peer-SAN-URI">>

PlaceOf(name) == CHOOSE k \in 1..Len(FixedHeaderNames) : FixedHeaderNames[k] = name

\* C10: the names request_filter passes to set_header are, in order, a
\* subsequence of the fixed list: each is in the list, each comes later in the
\* list than the one written before it (so none is written twice), and
\* X-Peer-Certificate-Present is the first written and is always written.
C10_HeaderOrder ==
    /\ \A i \in 1..Len(headers) : Contains(FixedHeaderNames, headers[i].name)
    /\ \A i \in 1..Len(headers), j \in 1..Len(headers) :
          i < j => PlaceOf(headers[i].name) < PlaceOf(headers[j].name)
    /\ Len(headers) > 0 => headers[1].name = "X-Peer-Certificate-Present"
    /\ pc \notin {"start", "check"} => Len(headers) > 0

C10_Witness ==
    /\ pc = "done"
    /\ Len(headers) = Len(FixedHeaderNames) - 1
    /\ HasHeader("X-Peer-State")
    /\ HasHeader("X-Peer-SAN-URI")

=============================================================================
